---- MODULE Spec2Model ----
(***************************************************************************)
(* ws-endpoint-monitor (src/src/main.rs).                                  *)
(*                                                                         *)
(* Two components share two atomic counters:                               *)
(*   - the prober, connection_monitor: one task looping over               *)
(*     interval.tick() -> WsClientBuilder..build() -> client.request()     *)
(*     and adding one to `success` or to `failure`;                        *)
(*   - the exporter, metrics_handler + prometheus_output: one invocation   *)
(*     per GET /metrics, loading the two counters and rendering them.      *)
(*                                                                         *)
(* Time is discrete: a clock strikes once a second (the unit of the three  *)
(* configuration values) and durations are counted in strokes.  `delay`    *)
(* is the number of strokes left until the interval's deadline, `elapsed`  *)
(* the number of strokes since the awaited phase began.  A phase bounded   *)
(* by a timeout of T seconds times out when T strokes have passed; it can  *)
(* end earlier, and, since a phase need not begin on a stroke, it can      *)
(* still succeed after its T-th stroke, unless T is 0.                     *)
(***************************************************************************)
EXTENDS Integers, Sequences, FiniteSets, TLC

VARIABLES
    cfg,        \* Args: monitor_url, monitor_interval, the two timeouts
    pc,         \* position of the connection_monitor task
    success,    \* AtomicUsize success_counter
    failure,    \* AtomicUsize failure_counter
    delay,      \* time until the deadline of `interval` (<= 0: a tick is due)
    elapsed,    \* time spent so far in the awaited phase (build / request)
    attempts,   \* connection attempts started (calls of build)
    requests,   \* RPC requests issued (calls of client.request)
    open,       \* live WsClient values (connections held by the prober)
    logged,     \* number of event! calls made, per call site
    lastLog,    \* the event! call of the latest step (NoLog when that step
                \* logged nothing)
    scr,        \* the metrics_handler invocations in progress, one per slot
    sent,       \* the latest response returned, with the values it rendered
    now,        \* strokes of the clock since `interval` was created
    ticks,      \* completions of interval.tick().await
    reported    \* the largest value of each counter in the responses so far

vars == <<cfg, pc, success, failure, delay, elapsed, attempts, requests,
          open, logged, lastLog, scr, sent, now, ticks, reported>>

proberVars == <<pc, success, failure, delay, elapsed, attempts, requests,
                open, logged>>

-----------------------------------------------------------------------------
(* Bounds of the model *)

\* probe cycles the full system is followed for
MaxCycles == 2

\* probe cycles the prober alone is followed for
MaxProbes == 11

\* metrics_handler invocations that can be in progress at once
NumScrapers == 2

\* largest value of monitor_interval (seconds)
MaxInterval == 1

\* largest value of monitor_connection_timeout and monitor_request_timeout
MaxTimeout == 1

\* largest counter value prometheus_output is called with on its own
MaxCount == 3

Scrapers == 1..NumScrapers

-----------------------------------------------------------------------------
(* Configuration: struct Args *)

\* A URL is a sequence of pieces; the pieces stand for the substrings of the
\* string given as --monitor-url.
Urls ==
    { <<>>,
      <<"wss://", "X", "/", "\"">> }

\* what WsClientBuilder::build accepts as a target: a ws:// or wss:// scheme
\* followed by a host
UrlValid(url) ==
    /\ Len(url) >= 2
    /\ url[1] \in {"ws://", "wss://"}

Args ==
    [ monitor_url : Urls,
      monitor_interval : 0..MaxInterval,
      monitor_connection_timeout : 0..MaxTimeout,
      monitor_request_timeout : 0..MaxTimeout ]

-----------------------------------------------------------------------------
(* Logging: the three event! call sites of connection_monitor *)

NoLog == [level |-> "NONE", msg |-> "", e |-> ""]

LogSuccess ==
    [level |-> "DEBUG", msg |-> "Successful check, finalized head", e |-> ""]

LogRequestFailed(e) ==
    [level |-> "WARN", msg |-> "Check failed during RPC request", e |-> e]

LogConnectionFailed(e) ==
    [level |-> "WARN", msg |-> "Check failed during connection", e |-> e]

\* the errors build() can return
ConnErrors == {"timeout", "refused", "tls", "dns", "handshake", "url"}

\* the errors request::<String, _>() can return
RequestErrors == {"timeout", "malformed", "dropped"}

\* probe cycles that have been classified
Completed == logged.ok + logged.rpc + logged.conn

-----------------------------------------------------------------------------
(* The exporter's pure part: prometheus_output and what it calls *)

\* byte order of the strings that occur as label names and label values
Lexical ==
    << "\"", "/", "SUCCESS", "TIMEOUT", "X", "endpoint", "result",
       "ws://", "wss://" >>

RECURSIVE RankFrom(_, _)
RankFrom(str, k) ==
    IF k > Len(Lexical) THEN k
    ELSE IF Lexical[k] = str THEN k
    ELSE RankFrom(str, k + 1)

Rank(str) == RankFrom(str, 1)

\* a < b for two strings given as sequences of pieces
RECURSIVE PiecesLess(_, _)
PiecesLess(a, b) ==
    IF Len(b) = 0 THEN FALSE
    ELSE IF Len(a) = 0 THEN TRUE
    ELSE IF Head(a) = Head(b) THEN PiecesLess(Tail(a), Tail(b))
    ELSE Rank(Head(a)) < Rank(Head(b))

\* `usize as f64`: the nearest value with a 53-bit significand, ties to even
F64Mantissa == 53

RECURSIVE BitLen(_)
BitLen(n) == IF n = 0 THEN 0 ELSE 1 + BitLen(n \div 2)

AsF64(n) ==
    IF BitLen(n) <= F64Mantissa THEN n
    ELSE LET unit == 2 ^ (BitLen(n) - F64Mantissa)
             q == n \div unit
             r == n % unit
         IN  IF 2 * r > unit \/ (2 * r = unit /\ q % 2 = 1)
             THEN (q + 1) * unit
             ELSE q * unit

\* Display of an integral f64, as the text encoder writes a sample value
FormatF64(v) == ToString(v)

\* the text encoder's escaping of a label value: \ -> \\, " -> \", LF -> \n
EscapePiece(p) ==
    IF p = "\\" THEN "\\\\"
    ELSE IF p = "\"" THEN "\\\""
    ELSE IF p = "\n" THEN "\\n"
    ELSE p

EscapeLabelValue(v) == [k \in 1..Len(v) |-> EscapePiece(v[k])]

\* Opts::new(name, help)
Opts_new(name, help) == [name |-> name, help |-> help, const_labels |-> <<>>]

RECURSIVE InsertLabel(_, _, _)
InsertLabel(labels, name, value) ==
    IF Len(labels) = 0 THEN << <<name, value>> >>
    ELSE IF Head(labels)[1] = name THEN << <<name, value>> >> \o Tail(labels)
    ELSE IF Rank(name) < Rank(Head(labels)[1])
         THEN << <<name, value>> >> \o labels
    ELSE << Head(labels) >> \o InsertLabel(Tail(labels), name, value)

\* Opts::const_label(name, value); the label pairs of a Desc are kept sorted
\* by label name
const_label(opts, name, value) ==
    [opts EXCEPT !.const_labels = InsertLabel(@, name, value)]

\* Counter::with_opts(opts): a counter starts at 0
Counter_with_opts(opts) == [desc |-> opts, v |-> 0]

\* Registry::new()
Registry_new == [collectors |-> <<>>, err |-> FALSE]

LabelNames(desc) == [k \in 1..Len(desc.const_labels) |-> desc.const_labels[k][1]]

\* Registry::register(c).unwrap(): a collector whose descriptor is already
\* registered, or that disagrees with its family on help or label names, is
\* refused, and unwrap then panics
register(r, c) ==
    LET clash(k) ==
            LET d == r.collectors[k].desc
            IN  /\ d.name = c.desc.name
                /\ \/ d.const_labels = c.desc.const_labels
                   \/ d.help # c.desc.help
                   \/ LabelNames(d) # LabelNames(c.desc)
    IN  IF r.err \/ \E k \in 1..Len(r.collectors) : clash(k)
        THEN [r EXCEPT !.err = TRUE]
        ELSE [r EXCEPT !.collectors = Append(@, c)]

\* Counter::inc_by(v) on a counter the registry holds a clone of (the clone
\* shares the value)
inc_by(r, c, v) ==
    [r EXCEPT !.collectors =
        [k \in 1..Len(@) |->
            IF @[k].desc = c.desc THEN [@[k] EXCEPT !.v = @ + v] ELSE @[k]]]

\* order of two metrics of one family: by their label values, pairwise
RECURSIVE LabelsLess(_, _)
LabelsLess(a, b) ==
    IF Len(a) = 0 \/ Len(b) = 0 THEN Len(a) < Len(b)
    ELSE IF Head(a)[2] = Head(b)[2] THEN LabelsLess(Tail(a), Tail(b))
    ELSE PiecesLess(Head(a)[2], Head(b)[2])

RECURSIVE InsertMetric(_, _)
InsertMetric(sorted, m) ==
    IF Len(sorted) = 0 THEN <<m>>
    ELSE IF LabelsLess(m.desc.const_labels, Head(sorted).desc.const_labels)
         THEN <<m>> \o sorted
    ELSE <<Head(sorted)>> \o InsertMetric(Tail(sorted), m)

RECURSIVE SortMetrics(_)
SortMetrics(ms) ==
    IF Len(ms) = 0 THEN <<>>
    ELSE InsertMetric(SortMetrics(Tail(ms)), Head(ms))

\* variant of gather: a metric that is still 0 is left out
gather_nonzero(r) == SelectSeq(SortMetrics(r.collectors), LAMBDA m : m.v > 0)

\* Registry::gather(): the metrics of the (single) family, sorted
gather(r) == SortMetrics(r.collectors)

HelpLine(m) ==
    [kind |-> "# HELP", name |-> m.desc.name, labels |-> <<>>, text |-> m.desc.help]

TypeLine(m) ==
    [kind |-> "# TYPE", name |-> m.desc.name, labels |-> <<>>, text |-> "counter"]

SampleLine(m) ==
    [kind |-> "sample", name |-> m.desc.name,
     labels |-> [k \in 1..Len(m.desc.const_labels) |->
                    << m.desc.const_labels[k][1],
                       EscapeLabelValue(m.desc.const_labels[k][2]) >>],
     text |-> FormatF64(m.v)]

\* TextEncoder::encode: HELP and TYPE of the family, then one line a metric
encode(metric_families) ==
    IF Len(metric_families) = 0 THEN <<>>
    ELSE << HelpLine(metric_families[1]), TypeLine(metric_families[1]) >>
         \o [k \in 1..Len(metric_families) |-> SampleLine(metric_families[k])]

\* the response of a handler whose unwrap() panicked
Panicked == [status |-> 500, content_type |-> "", body |-> <<>>]

\* the body built from a registry on which both register calls succeeded
Response(r) ==
    IF r.err THEN Panicked
    ELSE [status |-> 200,
          content_type |-> "text/plain; version=0.0.4",
          body |-> encode(gather(r))]

\* variant of prometheus_output: the SUCCESS counter is given the failure
\* count and the TIMEOUT counter the success count
prometheus_output_swapped(endpoint, s, f) ==
    LET counter_opts ==
            const_label(Opts_new("check_count", "Number of connection check results"),
                        "endpoint", endpoint)
        success_counter ==
            Counter_with_opts(const_label(counter_opts, "result", <<"SUCCESS">>))
        failure_counter ==
            Counter_with_opts(const_label(counter_opts, "result", <<"TIMEOUT">>))
        r2 == register(register(Registry_new, success_counter), failure_counter)
    IN  Response(inc_by(inc_by(r2, success_counter, AsF64(f)),
                        failure_counter, AsF64(s)))

\* variant of prometheus_output: the two counters outlive the call, so what
\* the previous call added is still in them
prometheus_output_accumulating(endpoint, s, f) ==
    LET counter_opts ==
            const_label(Opts_new("check_count", "Number of connection check results"),
                        "endpoint", endpoint)
        success_counter ==
            Counter_with_opts(const_label(counter_opts, "result", <<"SUCCESS">>))
        failure_counter ==
            Counter_with_opts(const_label(counter_opts, "result", <<"TIMEOUT">>))
        r2 == register(register(Registry_new, success_counter), failure_counter)
    IN  Response(inc_by(inc_by(r2, success_counter, AsF64(sent.success + s)),
                        failure_counter, AsF64(sent.failure + f)))

\* prometheus_output(endpoint, success, failure)
prometheus_output(endpoint, s, f) ==
    LET counter_opts ==
            const_label(Opts_new("check_count", "Number of connection check results"),
                        "endpoint", endpoint)
        success_counter ==
            Counter_with_opts(const_label(counter_opts, "result", <<"SUCCESS">>))
        failure_counter ==
            Counter_with_opts(const_label(counter_opts, "result", <<"TIMEOUT">>))
        r2 == register(register(Registry_new, success_counter), failure_counter)
    IN  Response(inc_by(inc_by(r2, success_counter, AsF64(s)),
                        failure_counter, AsF64(f)))

\* prometheus_output on every argument list metrics_handler can pass it
\* while the counters stay within the cycles followed (f @@ <<>> is f, as a
\* table that is evaluated once)
Rendered ==
    [a \in Urls \X (0..MaxCycles) \X (0..MaxCycles) |->
        prometheus_output(a[1], a[2], a[3])] @@ <<>>

\* the value text of the sample whose `result` label is `result`, "" if absent
SampleText(resp, result) ==
    LET hits == { k \in 1..Len(resp.body) :
                    /\ resp.body[k].kind = "sample"
                    /\ \E j \in 1..Len(resp.body[k].labels) :
                          resp.body[k].labels[j] = <<"result", <<result>> >> }
    IN  IF hits = {} THEN "" ELSE resp.body[CHOOSE k \in hits : TRUE].text

-----------------------------------------------------------------------------
(* Initial state: main, up to the point where the task is spawned and the    *)
(* server is bound                                                           *)

\* a slot in which no handler is running; a running handler holds the value
\* of `success` it loaded, and `begin` records how many cycles had been
\* completed when it began
Idle == [pc |-> "idle", success |-> 0, begin |-> 0]

\* before the first response
NoResponse ==
    [success |-> 0, failure |-> 0,
     resp |-> [status |-> 0, content_type |-> "", body |-> <<>>]]

Init ==
    /\ cfg \in Args
    /\ pc = "start"
    /\ success = 0
    /\ failure = 0
    /\ delay = 0
    /\ elapsed = 0
    /\ attempts = 0
    /\ requests = 0
    /\ open = 0
    /\ logged = [ok |-> 0, rpc |-> 0, conn |-> 0]
    /\ lastLog = NoLog
    /\ scr = [i \in Scrapers |-> Idle]
    /\ sent = NoResponse
    /\ now = 0
    /\ ticks = 0
    /\ reported = [success |-> 0, failure |-> 0]

-----------------------------------------------------------------------------
(* The prober: connection_monitor *)

InLoop == {"tick", "connecting", "requesting"}

\* variant of PhaseTimeout: the two timeouts handed to the builder the wrong
\* way round
PhaseTimeout_swapped ==
    IF pc = "connecting" THEN cfg.monitor_request_timeout
    ELSE cfg.monitor_connection_timeout

\* the timeout that bounds the phase the prober is awaiting
PhaseTimeout ==
    IF pc = "connecting" THEN cfg.monitor_connection_timeout
    ELSE cfg.monitor_request_timeout

\* variant of Start: the first tick is due one period after the timer was
\* created (interval_at(now + period, period))
Start_waiting ==
    /\ pc = "start"
    /\ pc' = IF cfg.monitor_interval = 0 THEN "panicked" ELSE "tick"
    /\ delay' = cfg.monitor_interval
    /\ lastLog' = NoLog
    /\ UNCHANGED <<cfg, reported, now, ticks, success, failure, elapsed, attempts, requests, open,
                   logged, scr, sent>>

\* time::interval(Duration::from_secs(interval)) panics on a zero period;
\* otherwise the first tick is due at once
Start ==
    /\ pc = "start"
    /\ pc' = IF cfg.monitor_interval = 0 THEN "panicked" ELSE "tick"
    /\ delay' = 0
    /\ lastLog' = NoLog
    /\ UNCHANGED <<cfg, reported, now, ticks, success, failure, elapsed, attempts, requests, open,
                   logged, scr, sent>>

\* variant of TickFire: every tick that is due starts a probe of its own,
\* whether or not the previous one has ended
TickFire_overlapping ==
    /\ pc \in InLoop
    /\ delay <= 0
    /\ delay' = delay + cfg.monitor_interval
    /\ pc' = "connecting"
    /\ elapsed' = 0
    /\ attempts' = attempts + 1
    /\ ticks' = ticks + 1
    /\ lastLog' = NoLog
    /\ UNCHANGED <<cfg, reported, now, success, failure, requests, open, logged, scr, sent>>

\* variant of TickFire: MissedTickBehavior::Delay, the next tick is due one
\* period after this one was delivered
TickFire_delay ==
    /\ pc = "tick"
    /\ delay <= 0
    /\ delay' = cfg.monitor_interval
    /\ pc' = "connecting"
    /\ elapsed' = 0
    /\ attempts' = attempts + 1
    /\ ticks' = ticks + 1
    /\ lastLog' = NoLog
    /\ UNCHANGED <<cfg, reported, now, success, failure, requests, open, logged, scr, sent>>

\* interval.tick().await completes: the deadline moves on by one period
\* (MissedTickBehavior::Burst, the default), and build() is called
TickFire ==
    /\ pc = "tick"
    /\ delay <= 0
    /\ delay' = delay + cfg.monitor_interval
    /\ pc' = "connecting"
    /\ elapsed' = 0
    /\ attempts' = attempts + 1
    /\ ticks' = ticks + 1
    /\ lastLog' = NoLog
    /\ UNCHANGED <<cfg, reported, now, success, failure, requests, open, logged, scr, sent>>

\* build(&url).await returns Ok(client); client.request(..) is issued
ConnectOk ==
    /\ pc = "connecting"
    /\ UrlValid(cfg.monitor_url)
    /\ PhaseTimeout > 0
    /\ pc' = "requesting"
    /\ elapsed' = 0
    /\ open' = open + 1
    /\ requests' = requests + 1
    /\ lastLog' = NoLog
    /\ UNCHANGED <<cfg, reported, now, ticks, success, failure, delay, attempts, logged, scr, sent>>

\* when build() can return the error e
ConnErrPossible(e) ==
    IF ~UrlValid(cfg.monitor_url) THEN e = "url"
    ELSE IF e = "timeout" THEN elapsed >= PhaseTimeout
    ELSE e # "url"

\* variant of ConnectErr: the failure is logged but not counted
ConnectErr_uncounted(e) ==
    /\ pc = "connecting"
    /\ ConnErrPossible(e)
    /\ lastLog' = LogConnectionFailed(e)
    /\ logged' = [logged EXCEPT !.conn = @ + 1]
    /\ pc' = "tick"
    /\ elapsed' = 0
    /\ UNCHANGED <<cfg, reported, now, ticks, success, failure, delay, attempts, requests, open,
                   scr, sent>>

\* variant of ConnectErr: a connection timeout is not counted as a failure
ConnectErr_timeout_skipped(e) ==
    /\ pc = "connecting"
    /\ ConnErrPossible(e)
    /\ lastLog' = LogConnectionFailed(e)
    /\ logged' = [logged EXCEPT !.conn = @ + 1]
    /\ failure' = IF e = "timeout" THEN failure ELSE failure + 1
    /\ pc' = "tick"
    /\ elapsed' = 0
    /\ UNCHANGED <<cfg, reported, now, ticks, success, delay, attempts, requests, open, scr, sent>>

\* variant of ConnectErr: a failed connection is counted and tried again at
\* once, without waiting for the tick
ConnectErr_retrying(e) ==
    /\ pc = "connecting"
    /\ ConnErrPossible(e)
    /\ lastLog' = LogConnectionFailed(e)
    /\ logged' = [logged EXCEPT !.conn = @ + 1]
    /\ failure' = failure + 1
    /\ pc' = "connecting"
    /\ attempts' = attempts + 1
    /\ elapsed' = 0
    /\ UNCHANGED <<cfg, reported, now, ticks, success, delay, requests, open, scr, sent>>

\* build(&url).await returns Err(e): lines 184-188
ConnectErr(e) ==
    /\ pc = "connecting"
    /\ ConnErrPossible(e)
    /\ lastLog' = LogConnectionFailed(e)
    /\ logged' = [logged EXCEPT !.conn = @ + 1]
    /\ failure' = failure + 1
    /\ pc' = "tick"
    /\ elapsed' = 0
    /\ UNCHANGED <<cfg, reported, now, ticks, success, delay, attempts, requests, open, scr, sent>>

\* variant of RequestOk: a success starts the count of failures afresh
RequestOk_resetting ==
    /\ pc = "requesting"
    /\ PhaseTimeout > 0
    /\ lastLog' = LogSuccess
    /\ logged' = [logged EXCEPT !.ok = @ + 1]
    /\ success' = success + 1
    /\ failure' = 0
    /\ open' = open - 1
    /\ pc' = "tick"
    /\ elapsed' = 0
    /\ UNCHANGED <<cfg, reported, now, ticks, delay, attempts, requests, scr, sent>>

\* request().await returns Ok(resp): lines 172-176; the client is dropped at
\* the end of the arm
RequestOk ==
    /\ pc = "requesting"
    /\ PhaseTimeout > 0
    /\ lastLog' = LogSuccess
    /\ logged' = [logged EXCEPT !.ok = @ + 1]
    /\ success' = success + 1
    /\ open' = open - 1
    /\ pc' = "tick"
    /\ elapsed' = 0
    /\ UNCHANGED <<cfg, reported, now, ticks, failure, delay, attempts, requests, scr, sent>>

\* when request() can return the error e
RequestErrPossible(e) == e = "timeout" => elapsed >= PhaseTimeout

\* variant of RequestErr: the arm adds to the wrong counter
RequestErr_wrong_counter(e) ==
    /\ pc = "requesting"
    /\ RequestErrPossible(e)
    /\ lastLog' = LogRequestFailed(e)
    /\ logged' = [logged EXCEPT !.rpc = @ + 1]
    /\ success' = success + 1
    /\ open' = open - 1
    /\ pc' = "tick"
    /\ elapsed' = 0
    /\ UNCHANGED <<cfg, reported, now, ticks, failure, delay, attempts, requests, scr, sent>>

\* variant of RequestErr: the result of the request is unwrapped, so an error
\* panics the task
RequestErr_fatal(e) ==
    /\ pc = "requesting"
    /\ RequestErrPossible(e)
    /\ open' = open - 1
    /\ pc' = "panicked"
    /\ elapsed' = 0
    /\ lastLog' = NoLog
    /\ UNCHANGED <<cfg, reported, now, ticks, success, failure, delay, attempts, requests, logged,
                   scr, sent>>

\* variant of RequestErr: the client of a failed request is kept (moved out
\* of the arm) instead of dropped
RequestErr_leaking(e) ==
    /\ pc = "requesting"
    /\ RequestErrPossible(e)
    /\ lastLog' = LogRequestFailed(e)
    /\ logged' = [logged EXCEPT !.rpc = @ + 1]
    /\ failure' = failure + 1
    /\ pc' = "tick"
    /\ elapsed' = 0
    /\ UNCHANGED <<cfg, reported, now, ticks, success, delay, attempts, requests, open,
                   scr, sent>>

\* request().await returns Err(e): lines 177-181
RequestErr(e) ==
    /\ pc = "requesting"
    /\ RequestErrPossible(e)
    /\ lastLog' = LogRequestFailed(e)
    /\ logged' = [logged EXCEPT !.rpc = @ + 1]
    /\ failure' = failure + 1
    /\ open' = open - 1
    /\ pc' = "tick"
    /\ elapsed' = 0
    /\ UNCHANGED <<cfg, reported, now, ticks, success, delay, attempts, requests, scr, sent>>

\* One second passes while the prober is suspended: before the deadline of
\* the interval, or within the timeout of the awaited phase.
AdvanceTime ==
    /\ \/ pc = "tick" /\ delay > 0
       \/ pc = "connecting" /\ UrlValid(cfg.monitor_url) /\ elapsed < PhaseTimeout
       \/ pc = "requesting" /\ elapsed < PhaseTimeout
    /\ delay' = delay - 1
    /\ elapsed' = IF pc = "tick" THEN elapsed ELSE elapsed + 1
    /\ now' = now + 1
    /\ lastLog' = NoLog
    /\ UNCHANGED <<cfg, reported, ticks, pc, success, failure, attempts, requests, open,
                   logged, scr, sent>>

-----------------------------------------------------------------------------
(* The exporter: metrics_handler *)

\* variant of LoadSuccess: the counter is taken (swap(0)) instead of loaded
LoadSuccess_taking(i) ==
    /\ scr[i].pc = "idle"
    /\ scr' = [scr EXCEPT ![i] = [pc |-> "loaded", success |-> success,
                                  begin |-> Completed]]
    /\ success' = 0
    /\ lastLog' = NoLog
    /\ UNCHANGED <<cfg, reported, now, ticks, pc, failure, delay, elapsed, attempts,
                   requests, open, logged, sent>>

\* variant of LoadSuccess: the counters sit behind a lock that the prober
\* holds from the tick to the end of its cycle
LoadSuccess_blocking(i) ==
    /\ scr[i].pc = "idle"
    /\ pc \notin {"connecting", "requesting"}
    /\ scr' = [scr EXCEPT ![i] = [pc |-> "loaded", success |-> success,
                                  begin |-> Completed]]
    /\ lastLog' = NoLog
    /\ UNCHANGED <<cfg, reported, now, ticks, pc, success, failure, delay, elapsed, attempts,
                   requests, open, logged, sent>>

\* the handler is invoked and loads `success`: lines 198-199
LoadSuccess(i) ==
    /\ scr[i].pc = "idle"
    /\ scr' = [scr EXCEPT ![i] = [pc |-> "loaded", success |-> success,
                                  begin |-> Completed]]
    /\ lastLog' = NoLog
    /\ UNCHANGED <<cfg, reported, now, ticks, pc, success, failure, delay, elapsed, attempts,
                   requests, open, logged, sent>>

\* variant of Respond: the failure count is taken from the previous response
\* (a cache) instead of loaded
Respond_cached(i) ==
    /\ scr[i].pc = "loaded"
    /\ sent' = [success |-> scr[i].success, failure |-> sent.failure,
                resp |-> Rendered[<<cfg.monitor_url, scr[i].success, sent.failure>>]]
    /\ reported' = [success |-> IF scr[i].success > reported.success
                                THEN scr[i].success ELSE reported.success,
                    failure |-> reported.failure]
    /\ scr' = [scr EXCEPT ![i] = Idle]
    /\ lastLog' = NoLog
    /\ UNCHANGED <<cfg, now, ticks, pc, success, failure, delay, elapsed, attempts,
                   requests, open, logged>>

\* it loads `failure`, renders and returns the response: lines 200-202
Respond(i) ==
    /\ scr[i].pc = "loaded"
    /\ sent' = [success |-> scr[i].success, failure |-> failure,
                resp |-> Rendered[<<cfg.monitor_url, scr[i].success, failure>>]]
    /\ reported' = [success |-> IF scr[i].success > reported.success
                                THEN scr[i].success ELSE reported.success,
                    failure |-> IF failure > reported.failure
                                THEN failure ELSE reported.failure]
    /\ scr' = [scr EXCEPT ![i] = Idle]
    /\ lastLog' = NoLog
    /\ UNCHANGED <<cfg, now, ticks, pc, success, failure, delay, elapsed, attempts,
                   requests, open, logged>>

-----------------------------------------------------------------------------
(* Specifications *)

\* the whole process, followed for MaxCycles probe cycles
Next ==
    \/ Start
    \/ Completed < MaxCycles /\ TickFire
    \/ ConnectOk
    \/ \E e \in ConnErrors : ConnectErr(e)
    \/ RequestOk
    \/ \E e \in RequestErrors : RequestErr(e)
    \/ AdvanceTime
    \/ \E i \in Scrapers : LoadSuccess(i)
    \/ \E i \in Scrapers : Respond(i)

Spec == Init /\ [][Next]_vars

\* the prober alone (nobody scrapes), followed for MaxProbes probe cycles
ProberNext ==
    \/ Start
    \/ Completed < MaxProbes /\ TickFire
    \/ ConnectOk
    \/ \E e \in ConnErrors : ConnectErr(e)
    \/ RequestOk
    \/ \E e \in RequestErrors : RequestErr(e)
    \/ AdvanceTime

ProberSpec == Init /\ [][ProberNext]_vars

\* The runtime polls the task when it is woken: the task starts, a due tick
\* is delivered, the clock advances, and a timeout that has expired ends its
\* phase.  Nothing is assumed of the node: it may never answer.
ProberFairness ==
    /\ WF_vars(Start)
    /\ WF_vars(Completed < MaxProbes /\ TickFire)
    /\ WF_vars(AdvanceTime)
    /\ WF_vars(ConnectErr("timeout") \/ ConnectErr("url"))
    /\ WF_vars(RequestErr("timeout"))

LiveSpec == ProberSpec /\ ProberFairness

\* prometheus_output called with the configured endpoint and any two counts
Render(s, f) ==
    /\ sent' = [success |-> s, failure |-> f,
                resp |-> prometheus_output(cfg.monitor_url, s, f)]
    /\ UNCHANGED <<cfg, reported, now, ticks, pc, success, failure, delay, elapsed,
                   attempts, requests, open, logged, lastLog, scr>>

RenderNext == \E s, f \in 0..MaxCount : Render(s, f)

\* the rendering function alone, on every endpoint and every pair of counts
RenderSpec == Init /\ [][RenderNext]_vars

-----------------------------------------------------------------------------
(* Properties *)

InFlight == pc \in {"connecting", "requesting"}

\* C1: in every reachable state success + failure is the number of probe
\* cycles that have been classified; the cycle in flight (connecting, or
\* awaiting the RPC response) has been started but counts in neither
\* counter.
C1_CounterSum ==
    /\ success + failure = Completed
    /\ success + failure = attempts - (IF InFlight THEN 1 ELSE 0)

C1_Witness ==
    /\ pc = "requesting"
    /\ attempts = 2
    /\ failure = 1
    /\ \E i \in Scrapers : scr[i].pc = "loaded"

\* C2: both counters start at zero; no step decreases or resets either of
\* them; a step that completes a cycle adds exactly one to exactly one of
\* them, and no other step changes them.
C2_IncrementOnly ==
    /\ success = 0 /\ failure = 0
    /\ [][ /\ success' >= success
           /\ failure' >= failure
           /\ Completed' = Completed + 1 =>
                 \/ success' = success + 1 /\ failure' = failure
                 \/ success' = success /\ failure' = failure + 1
           /\ Completed' = Completed =>
                 success' = success /\ failure' = failure ]_vars

C2_Witness ==
    /\ success = 1
    /\ failure = 1
    /\ pc = "tick"
    /\ sent.resp.status = 200

\* C3: at most one probe cycle is in flight: the connection attempts started
\* exceed the classified cycles by one exactly while the prober is
\* connecting or requesting, and a connection attempt starts only from the
\* wait for the tick, with every earlier cycle classified and counted -- also
\* when the cycle in flight has run past the next deadline.
C3_OneInFlight ==
    /\ [](/\ attempts - Completed \in {0, 1}
          /\ attempts - Completed = 1 <=> InFlight)
    /\ [][ attempts' # attempts =>
              /\ attempts' = attempts + 1
              /\ pc = "tick"
              /\ attempts = Completed
              /\ attempts = success + failure ]_vars

C3_Witness ==
    /\ InFlight
    /\ delay < 0
    /\ attempts = Completed + 1
    /\ Completed >= 1

\* the classified cycles in which a request was issued
RequestCycles == logged.ok + logged.rpc

\* C4: a cycle whose connection phase fails, whatever the error, is a
\* Failure: failure + 1, success unchanged, no RPC request issued in the
\* cycle, and the prober is back waiting for the tick.
C4_ConnectionFailure ==
    /\ [](requests = RequestCycles + (IF pc = "requesting" THEN 1 ELSE 0))
    /\ [][ (pc = "connecting" /\ pc' # "connecting" /\ pc' # "requesting") =>
              /\ failure' = failure + 1
              /\ success' = success
              /\ requests' = requests
              /\ pc' = "tick"
              /\ lastLog'.level = "WARN"
              /\ lastLog'.e \in ConnErrors ]_vars

C4_Witness ==
    /\ lastLog = LogConnectionFailed("timeout")
    /\ pc = "tick"
    /\ failure = 1
    /\ requests = 0

\* C5: a cycle whose connection succeeded and whose request ends in an error
\* is a Failure: failure + 1 and success unchanged; a request that times out
\* (which it does only once monitor_request_timeout has passed) is counted
\* in that same counter.
C5_RequestFailure ==
    [][ /\ (pc = "requesting" /\ logged'.rpc # logged.rpc) =>
              /\ failure' = failure + 1
              /\ success' = success
              /\ lastLog'.e \in RequestErrors
        /\ (pc = "requesting" /\ lastLog' = LogRequestFailed("timeout")) =>
              /\ elapsed >= cfg.monitor_request_timeout
              /\ failure' = failure + 1
              /\ success' = success ]_vars

C5_Witness ==
    /\ lastLog = LogRequestFailed("timeout")
    /\ pc = "tick"
    /\ failure = 1
    /\ success = 0
    /\ requests = 1

\* exactly one cycle has completed, and it was a Success
OneGoodCycle == logged = [ok |-> 1, rpc |-> 0, conn |-> 0]

\* slot i returns its response in this step
Responds(i) == scr[i].pc = "loaded" /\ scr'[i].pc = "idle"

\* C6: success changes only in the step that ends a cycle whose connection
\* succeeded and whose request returned a response, and then by one; the
\* first such cycle takes success from 0 to 1 with failure still 0, and a
\* scrape made after it (and before another cycle ends) loads 1 and
\* reports SUCCESS 1 and TIMEOUT 0.
C6_SuccessCycle ==
    /\ [][ success' # success =>
              /\ pc = "requesting"
              /\ open = 1
              /\ logged'.ok = logged.ok + 1
              /\ lastLog' = LogSuccess
              /\ success' = success + 1
              /\ failure' = failure ]_vars
    /\ [][ (Completed = 0 /\ logged'.ok = 1) =>
              /\ success = 0 /\ success' = 1
              /\ failure' = 0 ]_vars
    /\ [][ \A i \in Scrapers :
              /\ (OneGoodCycle /\ scr[i].pc = "idle" /\ scr'[i].pc = "loaded") =>
                    scr'[i].success = 1
              /\ (OneGoodCycle /\ Responds(i) /\ scr[i].success = 1) =>
                    /\ sent'.resp.status = 200
                    /\ SampleText(sent'.resp, "SUCCESS") = "1"
                    /\ SampleText(sent'.resp, "TIMEOUT") = "0" ]_vars

C6_Witness ==
    /\ OneGoodCycle
    /\ cfg.monitor_url = <<"wss://", "X", "/", "\"">>
    /\ sent.success = 1
    /\ SampleText(sent.resp, "SUCCESS") = "1"
    /\ SampleText(sent.resp, "TIMEOUT") = "0"

TenFailures == failure = 10 /\ success = 0

\* C7: no connection or request error stops the prober: once in its loop it
\* stays in its loop at every step, and after ten failed cycles in a row
\* (failure = 10, success = 0) it is in its loop and goes on to start cycle
\* eleven.
C7_Survives ==
    /\ [][ (pc \in InLoop) => (pc' \in InLoop) ]_vars
    /\ [](TenFailures => pc \in InLoop)
    /\ (TenFailures /\ pc = "tick") ~> (attempts = 11)

C7_Witness ==
    /\ TenFailures
    /\ attempts = 11
    /\ pc = "connecting"

\* C8: a cycle that has started completes: the connection phase lasts at
\* most monitor_connection_timeout and the request phase at most
\* monitor_request_timeout, so under fairness no cycle stays in flight and
\* the prober in its loop ends up having classified every cycle it is
\* followed for, each tick having been followed by its one increment.
C8_CyclesComplete ==
    /\ [](pc = "connecting" => elapsed <= cfg.monitor_connection_timeout)
    /\ [](pc = "requesting" => elapsed <= cfg.monitor_request_timeout)
    /\ <>[]((pc \in InLoop) =>
              /\ pc = "tick"
              /\ attempts = MaxProbes
              /\ success + failure = MaxProbes)

C8_Witness ==
    /\ pc = "requesting"
    /\ cfg.monitor_request_timeout > 0
    /\ elapsed = cfg.monitor_request_timeout
    /\ Completed >= 1

\* C9: a scrape changes neither counter, however many scrapes run at once;
\* the counters change only in a step of the prober that ends a cycle.
C9_ScrapeReadOnly ==
    [][ /\ (scr' # scr \/ sent' # sent) =>
              success' = success /\ failure' = failure
        /\ (success' # success \/ failure' # failure) =>
              /\ InFlight
              /\ pc' = "tick"
              /\ scr' = scr
              /\ sent' = sent ]_vars

C9_Witness ==
    /\ \A i \in Scrapers : scr[i].pc = "loaded"
    /\ sent.resp.status = 200
    /\ success >= 1
    /\ failure >= 1

C11_ScrapeNeverWaits ==
    /\ \A i \in Scrapers :
          /\ scr[i].pc = "idle" =>
                ENABLED (/\ LoadSuccess(i)
                         /\ UNCHANGED proberVars
                         /\ scr'[i].success = success)
          /\ scr[i].pc = "loaded" =>
                ENABLED (/\ Respond(i)
                         /\ UNCHANGED proberVars
                         /\ sent'.resp.status = 200
                         /\ sent'.success = scr[i].success
                         /\ sent'.failure = failure)
    /\ sent.resp.status \in {0, 200}
    /\ sent.success <= success
    /\ sent.failure <= failure
    /\ sent.success + sent.failure <= attempts - (IF InFlight THEN 1 ELSE 0)

C11_Witness ==
    /\ InFlight
    /\ success = 0
    /\ failure >= 1
    /\ sent.resp.status = 200
    /\ sent.failure = failure
    /\ \E i \in Scrapers : scr[i].pc = "loaded"

\* a parser's reading of an escaped label value, and of a sample value
UnescapePiece(p) ==
    IF p = "\\\\" THEN "\\"
    ELSE IF p = "\\\"" THEN "\""
    ELSE IF p = "\\n" THEN "\n"
    ELSE p

ParseLabelValue(v) == [k \in 1..Len(v) |-> UnescapePiece(v[k])]

ParseValue(text) ==
    IF \E n \in 0..(2 * MaxCount) : ToString(n) = text
    THEN CHOOSE n \in 0..(2 * MaxCount) : ToString(n) = text
    ELSE -1

SampleLines(resp) == { k \in 1..Len(resp.body) : resp.body[k].kind = "sample" }

\* the label pairs of line k of the body, as a parser reads them
ParsedLabels(resp, k) ==
    { << resp.body[k].labels[j][1], ParseLabelValue(resp.body[k].labels[j][2]) >> :
        j \in 1..Len(resp.body[k].labels) }

\* C12: for every endpoint and every pair of counts, (0, 0) included, the
\* rendered body holds exactly two samples, both of the one family
\* check_count: one labelled endpoint=<endpoint>, result=SUCCESS whose value
\* is the success count, one labelled endpoint=<endpoint>, result=TIMEOUT
\* whose value is the failure count.  Neither is left out at zero and there
\* is no third.
C12_TwoSamples ==
    sent.resp.status # 0 =>
        LET resp == sent.resp
            has(result, n) ==
                \E k \in SampleLines(resp) :
                    /\ ParsedLabels(resp, k) =
                          { <<"endpoint", cfg.monitor_url>>, <<"result", <<result>> >> }
                    /\ Len(resp.body[k].labels) = 2
                    /\ ParseValue(resp.body[k].text) = n
        IN  /\ resp.status = 200
            /\ Cardinality(SampleLines(resp)) = 2
            /\ \A k \in 1..Len(resp.body) : resp.body[k].name = "check_count"
            /\ Cardinality({ k \in 1..Len(resp.body) : resp.body[k].kind = "# TYPE" }) = 1
            /\ has("SUCCESS", sent.success)
            /\ has("TIMEOUT", sent.failure)

C12_Witness ==
    /\ sent.resp.status = 200
    /\ sent.success = 0
    /\ sent.failure = 0
    /\ Len(cfg.monitor_url) = 4

\* C13: the timer has a fixed period, the configured interval, and its
\* ticks are not coalesced.  The deadline of tick k+1 is k periods after the
\* timer was created, whatever the cycles before it took and however they
\* ended; every tick delivered starts one connection attempt; and when a
\* cycle has run past one or more deadlines the prober does not wait: the
\* next tick is delivered before the clock moves.
C13_FixedPeriod ==
    /\ []((pc \in InLoop) => now + delay = ticks * cfg.monitor_interval)
    /\ []((pc = "tick" /\ delay <= 0) => (ENABLED TickFire) /\ ~(ENABLED AdvanceTime))
    /\ [][ ticks' # ticks =>
              /\ ticks' = ticks + 1
              /\ attempts' = attempts + 1
              /\ pc' = "connecting"
              /\ now >= ticks * cfg.monitor_interval
              /\ delay' = delay + cfg.monitor_interval ]_vars

C13_Witness ==
    /\ pc = "connecting"
    /\ elapsed = 0
    /\ delay <= 0
    /\ ticks >= 2
    /\ failure >= 1

\* C14: nothing is retried within a cycle.  After k ticks there have been
\* exactly k connection attempts and at most k requests; a connection
\* attempt starts only with a tick, a request is issued only when the
\* connection attempt of the cycle succeeds, and the step that counts a
\* failure leaves the prober waiting for the next tick with no further
\* attempt and no further request.
C14_NoRetry ==
    /\ [](attempts = ticks /\ requests <= ticks)
    /\ [][ /\ (pc' = "connecting" /\ pc # "connecting") => ticks' = ticks + 1
           /\ requests' # requests =>
                 /\ requests' = requests + 1
                 /\ pc = "connecting"
                 /\ pc' = "requesting"
           /\ pc = "requesting" => pc' \in {"requesting", "tick"}
           /\ failure' # failure =>
                 /\ pc' = "tick"
                 /\ ticks' = ticks
                 /\ attempts' = attempts
                 /\ requests' = requests ]_vars

C14_Witness ==
    /\ pc = "tick"
    /\ delay > 0
    /\ failure >= 2
    /\ logged.rpc >= 1
    /\ logged.conn >= 1
    /\ attempts = Completed

\* C15: in every response, every sample carries one endpoint label whose
\* value, as a parser reads it, is the configured monitor_url -- the string
\* the prober passes to build() -- and that value is not the empty string,
\* whatever configuration the process was started with.
C15_EndpointLabel ==
    sent.resp.status # 0 =>
        /\ SampleLines(sent.resp) # {}
        /\ \A k \in SampleLines(sent.resp) :
              /\ \E v \in Urls : <<"endpoint", v>> \in ParsedLabels(sent.resp, k)
              /\ \A l \in ParsedLabels(sent.resp, k) :
                    l[1] = "endpoint" => l[2] = cfg.monitor_url /\ l[2] # <<>>

\* C16: the connection opened in a cycle is released, on success and on
\* failure, before the prober waits for the next tick.  A client exists
\* exactly while the prober awaits the response to its request: never more
\* than one, none while the prober is blocked on the timer; every client is
\* opened by the connection attempt of the cycle that uses it, for the one
\* request of that cycle, and is gone when the cycle is classified.
C16_ConnectionReleased ==
    /\ [](/\ open \in {0, 1}
          /\ open = 1 <=> pc = "requesting"
          /\ pc = "tick" => open = 0)
    /\ [][ /\ open' > open =>
                 /\ open = 0
                 /\ pc = "connecting"
                 /\ requests' = requests + 1
           /\ requests' # requests => open' = open + 1
           /\ (success' # success \/ failure' # failure) => open' = 0 ]_vars

C16_Witness ==
    /\ pc = "tick"
    /\ delay > 0
    /\ open = 0
    /\ logged.ok >= 1
    /\ logged.rpc >= 1
    /\ lastLog = LogRequestFailed("dropped")

\* C17: connection_monitor runs indefinitely: whatever interval and
\* timeouts the configuration carries, 0 included, the task is either about
\* to create its timer or inside its loop; it never aborts or returns.
C17_RunsIndefinitely == pc \in {"start"} \cup InLoop

Begins(i) == scr[i].pc = "idle" /\ scr'[i].pc = "loaded"

\* C18: a scrape loads `success` when it begins and `failure` when it ends,
\* and cycles may be counted in between.  Still the two values it reports
\* add up to at least the number of cycles completed when it began and at
\* most the number completed when it ended, and each is a value its counter
\* held during the scrape: `success` as it was at the first load, `failure`
\* as it is at the second.
C18_TornReadBounds ==
    /\ [](\A i \in Scrapers :
            scr[i].pc = "loaded" =>
                /\ scr[i].success <= success
                /\ scr[i].begin <= Completed)
    /\ [][ \A i \in Scrapers :
             /\ Begins(i) =>
                   /\ scr'[i].begin = success + failure
                   /\ scr'[i].success = success
             /\ Responds(i) =>
                   /\ sent'.success + sent'.failure >= scr[i].begin
                   /\ sent'.success + sent'.failure <= success' + failure'
                   /\ sent'.success = scr[i].success
                   /\ sent'.failure = failure ]_vars

C18_Witness ==
    /\ success = 1
    /\ failure = 1
    /\ \E i \in Scrapers :
          /\ scr[i].pc = "loaded"
          /\ scr[i].begin = 0
          /\ scr[i].success = 0

\* C19: of two scrapes of which the first has responded before the second
\* begins, the second reports no smaller value for either sample.  The
\* value of `success` a scrape loads as it begins is at least the largest
\* SUCCESS value of the responses made so far; the value of `failure` it
\* loads as it ends is at least the largest TIMEOUT value of the responses
\* made so far; and no response carries more than the counters hold.
C19_ScrapesMonotone ==
    /\ [](reported.success <= success /\ reported.failure <= failure)
    /\ [][ \A i \in Scrapers :
             /\ Begins(i) => scr'[i].success >= reported.success
             /\ Responds(i) =>
                   /\ sent'.success = scr[i].success
                   /\ sent'.failure >= reported.failure
                   /\ reported'.success >= sent'.success
                   /\ reported'.failure >= sent'.failure ]_vars

C19_Witness ==
    /\ sent.resp.status = 200
    /\ sent.success = 0
    /\ sent.failure = 0
    /\ failure = 1
    /\ \E i \in Scrapers :
          /\ scr[i].pc = "loaded"
          /\ scr[i].success = 1
          /\ scr[i].success > reported.success

\* C20: the first tick of the timer completes at once: the prober's first
\* connection attempt starts with no time passed since the timer was
\* created, so a counter can be incremented before one interval has gone
\* by; every later cycle waits for a later tick: attempt k + 1 starts no
\* earlier than k intervals after the timer was created.
C20_FirstTickImmediate ==
    /\ []((pc = "tick" /\ ticks = 0) =>
            /\ now = 0
            /\ (ENABLED TickFire) /\ ~(ENABLED AdvanceTime))
    /\ []((pc \in InLoop /\ attempts >= 1) =>
            now >= (attempts - 1) * cfg.monitor_interval)
    /\ [][ attempts' # attempts =>
              /\ ticks' = ticks + 1
              /\ attempts = 0 => now = 0
              /\ attempts >= 1 => now >= attempts * cfg.monitor_interval ]_vars

C20_Witness ==
    /\ success + failure = 1
    /\ success = 1
    /\ now < cfg.monitor_interval
    /\ pc = "tick"
    /\ delay > 0

====
